---- MODULE Spec2Model ----
(***************************************************************************)
(* A model of data/ftscraper.py: the Fantrax fetch-and-cache client.       *)
(*                                                                         *)
(* Two specifications share the variables and the Transport actions:       *)
(*   Spec           one run of main(): request_player_data() followed by   *)
(*                  request_league_info(_knownLeagues);                    *)
(*   SpecTransport  NCalls coroutines of _fantrax_api_request() started    *)
(*                  together on one event loop (as asyncio.gather starts   *)
(*                  them), sharing the module-level _request_sem.          *)
(*                                                                         *)
(* Time is in seconds.  A step of the model is what an asyncio task does   *)
(* between two suspension points.                                          *)
(***************************************************************************)
EXTENDS Integers, Sequences, FiniteSets, TLC

(***************************************************************************)
(* Bounds of the model.                                                    *)
(***************************************************************************)
NLeagues == 2     \* length of the league id list handed to request_league_info
NCalls == 6       \* coroutines started together in SpecTransport
MaxTicks == 1     \* seconds the clock may advance during a run
MaxFaults == 3    \* attempts of a run that may end other than in a good response

(***************************************************************************)
(* Program constants.                                                      *)
(***************************************************************************)
max_age_seconds == 86400
max_retries_more == 3 + 1         \* mutation: one retry more
max_retries == 3
request_sem_slots_more == 5 + 1   \* mutation: one slot more
request_sem_slots == 5
grace_days == 1

Day == 24 * 60 * 60
StartTime == 10 * Day

PlayerKey == 0
LeagueIds == 1..NLeagues
league_ids == [i \in 1..NLeagues |-> i]
FileKeys == {PlayerKey} \cup LeagueIds
CallIds == 1..NCalls
PlayerCall == 1

(***************************************************************************)
(* JSON documents, on disk or in a response body.  json: the text decodes; *)
(* error: the decoded value has an `error` member; schema: it has the      *)
(* members the pydantic model requires; key/ver name the resource and the  *)
(* revision of its data; endDate is LeagueInfo.endDate as a time.          *)
(***************************************************************************)
Garbage ==
    [json |-> FALSE, error |-> FALSE, schema |-> FALSE, key |-> 0, ver |-> 0, endDate |-> 0]

Doc(k, v, e, s, end) ==
    [json |-> TRUE, error |-> e, schema |-> s, key |-> k, ver |-> v, endDate |-> end]

EndedDate == StartTime - 3 * Day
OngoingDate == StartTime + 30 * Day

\* json.load / resp.json: raises on text that is not JSON.
Decodes(doc) == doc.json

\* TypeAdapter.validate_python / LeagueInfo.model_validate: raises unless the
\* required members are there; members the model does not declare are dropped.
Validates(doc) == doc.json /\ doc.schema

Validate(doc) == [key |-> doc.key, ver |-> doc.ver, endDate |-> doc.endDate]

\* model_dump followed by json.dump.
Dump(m) == Doc(m.key, m.ver, FALSE, TRUE, m.endDate)

Empty == [key |-> -1, ver |-> 0, endDate |-> 0]      \* the {} of line 269
NoValue == [key |-> -2, ver |-> 0, endDate |-> 0]    \* nothing returned or stored yet

(***************************************************************************)
(* Cache files.                                                            *)
(***************************************************************************)
NoFile == [exists |-> FALSE, readable |-> FALSE, mtime |-> 0, content |-> Garbage]

File(m, c) == [exists |-> TRUE, readable |-> TRUE, mtime |-> m, content |-> c]

Unreadable(m) == [exists |-> TRUE, readable |-> FALSE, mtime |-> m, content |-> Garbage]

InitialMtimes == {StartTime - max_age_seconds + 1, StartTime - max_age_seconds - 1}

InitialContents(k) ==
    {Garbage, Doc(k, 1, FALSE, FALSE, 0)}
    \cup (IF k = PlayerKey
          THEN {Doc(k, 1, FALSE, TRUE, 0)}
          ELSE {Doc(k, 1, FALSE, TRUE, EndedDate), Doc(k, 1, FALSE, TRUE, OngoingDate)})

InitialFiles(k) ==
    {NoFile}
    \cup {Unreadable(m) : m \in InitialMtimes}
    \cup {File(m, c) : m \in InitialMtimes, c \in InitialContents(k)}

\* Mutation: the cache is never trusted.
IsCacheFileTooOld_always(f, t) == TRUE

IsCacheFileTooOld(f, t) ==
    IF ~f.exists THEN TRUE ELSE (t - f.mtime) > max_age_seconds

has_league_ended(m, t) == t > m.endDate + grace_days * Day

(***************************************************************************)
(* What the upstream API can answer: an HTTP status and a body.            *)
(***************************************************************************)
Reply(st, j, e, s, v) == [status |-> st, json |-> j, error |-> e, schema |-> s, ver |-> v]

\* ver 1 is the revision the cache files hold, ver 2 a newer one.
AllReplies ==
    {Reply(st, FALSE, FALSE, FALSE, 0) : st \in {200, 500}}
    \cup {Reply(st, TRUE, TRUE, s, 2) : st \in {200, 500}, s \in BOOLEAN}
    \cup {Reply(st, TRUE, FALSE, FALSE, 2) : st \in {200, 500}}
    \cup {Reply(st, TRUE, FALSE, TRUE, v) : st \in {200, 500}, v \in {1, 2}}

HarnessReplies == {Reply(200, TRUE, FALSE, TRUE, 2), Reply(200, TRUE, TRUE, FALSE, 2)}

Body(r, url) ==
    IF r.json
    THEN Doc(url, r.ver, r.error, r.schema, IF url = PlayerKey THEN 0 ELSE OngoingDate)
    ELSE Garbage

VARIABLES
    now,                  \* time.time() / datetime.now()
    ticks,                \* seconds elapsed since the run began
    files,                \* data/.cache: file key -> file
    upstream,             \* the replies the upstream API may give in this run
    calls,                \* the _fantrax_api_request coroutines
    request_sem,          \* _request_sem._value
    sem_waiters,          \* _request_sem._waiters, first in first out
    ft_session,           \* _ft_session: 0 for None, else the call that opened it
    faults,               \* attempts that ended other than in a good response
    pc,                   \* where main is
    idx,                  \* position of request_league_info's first loop
    checked,              \* per file key: the file and the time when the cache was consulted
    transport_calls,      \* per file key: invocations of _fantrax_api_request
    refreshed,            \* per file key: how the refresh went ("none": not attempted)
    player_data,          \* what request_player_data returned
    league_info_results,  \* request_league_info's mapping (NoValue: no entry)
    info_requests         \* request_league_info's list of coroutines, by league id

vars ==
    <<now, ticks, files, upstream, calls, request_sem, sem_waiters, ft_session, faults, pc, idx,
      checked, transport_calls, refreshed, player_data, league_info_results, info_requests>>

mainVars ==
    <<pc, idx, checked, transport_calls, refreshed, player_data, league_info_results,
      info_requests>>

callVars == <<calls, request_sem, sem_waiters, ft_session, faults>>

IdleCall ==
    [pc |-> "idle", url |-> 0, retry_count |-> 0, attempts |-> 0, session |-> "none",
     last |-> "none", status |-> 0, result |-> Garbage, err |-> "none"]

NotChecked == [file |-> NoFile, at |-> -1]

\* A coroutine whose caller has taken its result or its exception: the frame
\* (retry_count, resp, json_resp) is gone; how it ended stays on record.
Settled(call) ==
    [IdleCall EXCEPT !.pc = "settled", !.url = call.url, !.session = call.session,
                     !.last = call.last, !.err = call.err]

envVars == <<now, ticks, files, upstream>>

(***************************************************************************)
(* _fantrax_api_request (lines 206-240).  An attempt is one api.request    *)
(* followed by resp.json; it ends in a timeout, in another transport       *)
(* error, or in a reply of the upstream API.                               *)
(***************************************************************************)
Outcomes ==
    {[kind |-> k, reply |-> Reply(0, FALSE, FALSE, FALSE, 0)] : k \in {"timeout", "connerr"}}
    \cup {[kind |-> "reply", reply |-> r] : r \in upstream}

\* What an attempt ended in, as a test double of the network would record it.
Observed(o) ==
    IF o.kind # "reply" THEN o.kind
    ELSE IF ~o.reply.json THEN "undecodable"
    ELSE IF o.reply.error THEN "business"
    ELSE "ok"

\* Mutation: a connection error is retried like a timeout.
IsTimeoutError_any(o) == o.kind \in {"timeout", "connerr"}

\* line 234: except asyncio.TimeoutError
IsTimeoutError(o) == o.kind = "timeout"

\* Mutation: the `error` member of the body is not looked at.
Raises_unchecked(o) == o.kind = "connerr" \/ ~o.reply.json

\* lines 226-232 and 237: api.request or resp.json raises, or the decoded body
\* has an `error` member.  resp.status is not looked at.
Raises(o) == o.kind = "connerr" \/ ~o.reply.json \/ o.reply.error

SemaphoreLocked == request_sem = 0 \/ sem_waiters # <<>>

CountFault(o) ==
    /\ Observed(o) # "ok" => faults < MaxFaults
    /\ faults' = IF Observed(o) = "ok" THEN faults ELSE faults + 1

\* lines 209-226: open the session, enter it, acquire the semaphore (or queue
\* for it), send the first request.  Coroutines start in the order they were
\* scheduled.
CallStart(c) ==
    /\ calls[c].pc = "start"
    /\ \A d \in CallIds : d < c => calls[d].pc # "start"
    /\ ft_session' = c
    /\ IF ~SemaphoreLocked
       THEN /\ request_sem' = request_sem - 1
            /\ calls' = [calls EXCEPT ![c].pc = "request", ![c].session = "open",
                                      ![c].attempts = 1]
            /\ UNCHANGED sem_waiters
       ELSE /\ sem_waiters' = Append(sem_waiters, c)
            /\ calls' = [calls EXCEPT ![c].pc = "wait", ![c].session = "open"]
            /\ UNCHANGED request_sem
    /\ UNCHANGED <<faults, envVars, mainVars>>

\* line 222, resumed: the first waiter takes the slot a release freed, and sends.
CallWake(c) ==
    /\ calls[c].pc = "wait"
    /\ request_sem > 0
    /\ sem_waiters # <<>> /\ Head(sem_waiters) = c
    /\ request_sem' = request_sem - 1
    /\ sem_waiters' = Tail(sem_waiters)
    /\ calls' = [calls EXCEPT ![c].pc = "request", ![c].attempts = 1]
    /\ UNCHANGED <<ft_session, faults, envVars, mainVars>>

\* Mutation: `async with _request_sem` sits inside the retry loop: a retry
\* gives the slot back and queues for it again.
CallTimeout_requeue(c) ==
    /\ calls[c].pc = "request"
    /\ \E o \in Outcomes :
          /\ IsTimeoutError(o)
          /\ CountFault(o)
          /\ IF calls[c].retry_count + 1 < max_retries
             THEN /\ calls' = [calls EXCEPT ![c].retry_count = @ + 1, ![c].pc = "wait",
                                            ![c].last = Observed(o)]
                  /\ sem_waiters' = Append(sem_waiters, c)
             ELSE /\ calls' = [calls EXCEPT ![c].retry_count = @ + 1, ![c].pc = "failed",
                                            ![c].err = "exhausted", ![c].session = "closed",
                                            ![c].last = Observed(o)]
                  /\ UNCHANGED sem_waiters
    /\ request_sem' = request_sem + 1
    /\ UNCHANGED <<ft_session, envVars, mainVars>>

\* lines 234-236, 223 and 240: a timeout is counted; the loop sends again while
\* retry_count < max_retries, else the call raises, leaving both `async with`.
CallTimeout(c) ==
    /\ calls[c].pc = "request"
    /\ \E o \in Outcomes :
          /\ IsTimeoutError(o)
          /\ CountFault(o)
          /\ IF calls[c].retry_count + 1 < max_retries
             THEN /\ calls' = [calls EXCEPT ![c].retry_count = @ + 1, ![c].attempts = @ + 1,
                                            ![c].last = Observed(o)]
                  /\ UNCHANGED request_sem
             ELSE /\ calls' = [calls EXCEPT ![c].retry_count = @ + 1, ![c].pc = "failed",
                                            ![c].err = "exhausted", ![c].session = "closed",
                                            ![c].last = Observed(o)]
                  /\ request_sem' = request_sem + 1
    /\ UNCHANGED <<sem_waiters, ft_session, envVars, mainVars>>

\* Mutation: the slot is released by hand after a return, not by `async with`:
\* an exception leaves it taken.
CallRaise_noRelease(c) ==
    /\ calls[c].pc = "request"
    /\ \E o \in Outcomes :
          /\ ~IsTimeoutError(o)
          /\ Raises(o)
          /\ CountFault(o)
          /\ calls' = [calls EXCEPT ![c].pc = "failed", ![c].err = "failed",
                                    ![c].session = "closed", ![c].last = Observed(o)]
    /\ UNCHANGED <<request_sem, sem_waiters, ft_session, envVars, mainVars>>

\* Mutation: the session is closed by hand after a return, not by
\* `async with`: an exception leaves it open.
CallRaise_leak(c) ==
    /\ calls[c].pc = "request"
    /\ \E o \in Outcomes :
          /\ ~IsTimeoutError(o)
          /\ Raises(o)
          /\ CountFault(o)
          /\ calls' = [calls EXCEPT ![c].pc = "failed", ![c].err = "failed",
                                    ![c].last = Observed(o)]
    /\ request_sem' = request_sem + 1
    /\ UNCHANGED <<sem_waiters, ft_session, envVars, mainVars>>

\* lines 232 and 237-238: any other exception is raised again at once.
CallRaise(c) ==
    /\ calls[c].pc = "request"
    /\ \E o \in Outcomes :
          /\ ~IsTimeoutError(o)
          /\ Raises(o)
          /\ CountFault(o)
          /\ calls' = [calls EXCEPT ![c].pc = "failed", ![c].err = "failed",
                                    ![c].session = "closed", ![c].last = Observed(o)]
    /\ request_sem' = request_sem + 1
    /\ UNCHANGED <<sem_waiters, ft_session, envVars, mainVars>>

\* line 233: return json_resp.
CallReturn(c) ==
    /\ calls[c].pc = "request"
    /\ \E o \in Outcomes :
          /\ ~IsTimeoutError(o)
          /\ ~Raises(o)
          /\ CountFault(o)
          /\ calls' = [calls EXCEPT ![c].pc = "returned", ![c].session = "closed",
                                    ![c].last = Observed(o), ![c].status = o.reply.status,
                                    ![c].result = Body(o.reply, calls[c].url)]
    /\ request_sem' = request_sem + 1
    /\ UNCHANGED <<sem_waiters, ft_session, envVars, mainVars>>

(***************************************************************************)
(* SpecTransport: NCalls coroutines of _fantrax_api_request on one loop.   *)
(***************************************************************************)
InitTransport ==
    /\ now = StartTime
    /\ ticks = 0
    /\ files = [k \in FileKeys |-> NoFile]
    /\ upstream = HarnessReplies
    /\ calls = [c \in CallIds |-> [IdleCall EXCEPT !.pc = "start", !.url = c]]
    /\ request_sem = request_sem_slots
    /\ sem_waiters = <<>>
    /\ ft_session = 0
    /\ faults = 0
    /\ pc = "harness"
    /\ idx = 1
    /\ checked = [k \in FileKeys |-> NotChecked]
    /\ transport_calls = [k \in FileKeys |-> 0]
    /\ refreshed = [k \in FileKeys |-> "none"]
    /\ player_data = NoValue
    /\ league_info_results = [k \in LeagueIds |-> NoValue]
    /\ info_requests = <<>>

NextTransport ==
    \E c \in CallIds :
        \/ CallStart(c)
        \/ CallWake(c)
        \/ CallTimeout(c)
        \/ CallRaise(c)
        \/ CallReturn(c)

SpecTransport == InitTransport /\ [][NextTransport]_vars

\* The event loop keeps running coroutines that are ready, and every attempt
\* ends: in a reply, in an error, or in the timeout of 10 seconds (line 227).
\* No fairness between coroutines is assumed.
FairTransport == WF_vars(NextTransport)

SpecTransportFair == InitTransport /\ [][NextTransport]_vars /\ FairTransport

(***************************************************************************)
(* Spec: one run of main() (lines 312-325).                                *)
(***************************************************************************)
\* The clock advances while the event loop waits for the network; the code
\* between two awaits takes no time.
Tick ==
    /\ pc = "player_await"
    /\ calls[PlayerCall].pc = "request"
    /\ ticks < MaxTicks
    /\ now' = now + 1
    /\ ticks' = ticks + 1
    /\ UNCHANGED <<files, upstream, callVars, mainVars>>

Consult(k) == [checked EXCEPT ![k] = [file |-> files[k], at |-> now]]

\* lines 322-325: close the last session opened, if any, and raise again.
MainRaises ==
    /\ pc' = "raised"
    /\ calls' = IF ft_session = 0 THEN calls
                ELSE [calls EXCEPT ![ft_session].session = "closed"]

\* lines 246-252: the cache file is recent, loads and validates.
PlayerCacheHit ==
    /\ pc = "player"
    /\ ~IsCacheFileTooOld(files[PlayerKey], now)
    /\ files[PlayerKey].readable
    /\ Decodes(files[PlayerKey].content) /\ Validates(files[PlayerKey].content)
    /\ player_data' = Validate(files[PlayerKey].content)
    /\ checked' = Consult(PlayerKey)
    /\ pc' = "leagues"
    /\ UNCHANGED <<idx, transport_calls, refreshed, league_info_results, info_requests,
                   envVars, callVars>>

\* line 247: open() is outside the try; its OSError leaves request_player_data.
PlayerOpenFails ==
    /\ pc = "player"
    /\ ~IsCacheFileTooOld(files[PlayerKey], now)
    /\ ~files[PlayerKey].readable
    /\ checked' = Consult(PlayerKey)
    /\ MainRaises
    /\ UNCHANGED <<idx, transport_calls, refreshed, player_data, league_info_results, info_requests,
                   envVars, request_sem, sem_waiters, ft_session, faults>>

\* lines 246, 253-259: the file is missing or too old, or what it holds does not
\* load or validate: _fantrax_api_request is called.
PlayerRequest ==
    /\ pc = "player"
    /\ \/ IsCacheFileTooOld(files[PlayerKey], now)
       \/ /\ files[PlayerKey].readable
          /\ ~(Decodes(files[PlayerKey].content) /\ Validates(files[PlayerKey].content))
    /\ checked' = Consult(PlayerKey)
    /\ transport_calls' = [transport_calls EXCEPT ![PlayerKey] = @ + 1]
    /\ calls' = [calls EXCEPT ![PlayerCall] = [IdleCall EXCEPT !.pc = "start", !.url = PlayerKey]]
    /\ pc' = "player_await"
    /\ UNCHANGED <<idx, refreshed, player_data, league_info_results, info_requests, envVars,
                   request_sem, sem_waiters, ft_session, faults>>

\* Mutation: the cache file is opened for writing before the body is validated.
PlayerOpenForWrite_unvalidated ==
    /\ pc = "player_await"
    /\ calls[PlayerCall].pc = "returned"
    /\ files' = [files EXCEPT ![PlayerKey] =
                    [exists |-> TRUE,
                     readable |-> IF @.exists THEN @.readable ELSE TRUE,
                     mtime |-> now,
                     content |-> Garbage]]
    /\ pc' = "player_write"
    /\ UNCHANGED <<now, ticks, upstream, callVars, idx, checked, transport_calls, refreshed,
                   player_data, league_info_results, info_requests>>

\* lines 259-260: the body validates; open(..., 'w') truncates the cache file.
PlayerOpenForWrite ==
    /\ pc = "player_await"
    /\ calls[PlayerCall].pc = "returned"
    /\ Validates(calls[PlayerCall].result)
    /\ files' = [files EXCEPT ![PlayerKey] =
                    [exists |-> TRUE,
                     readable |-> IF @.exists THEN @.readable ELSE TRUE,
                     mtime |-> now,
                     content |-> Garbage]]
    /\ pc' = "player_write"
    /\ UNCHANGED <<now, ticks, upstream, callVars, idx, checked, transport_calls, refreshed,
                   player_data, league_info_results, info_requests>>

\* Mutation: os.utime is handed the times the file had before the refresh.
PlayerDump_keepTime ==
    /\ pc = "player_write"
    /\ files' = [files EXCEPT ![PlayerKey].content = Dump(Validate(calls[PlayerCall].result)),
                              ![PlayerKey].mtime = checked[PlayerKey].file.mtime]
    /\ player_data' = Validate(calls[PlayerCall].result)
    /\ calls' = [calls EXCEPT ![PlayerCall] = Settled(@)]
    /\ refreshed' = [refreshed EXCEPT ![PlayerKey] = "stored"]
    /\ pc' = "leagues"
    /\ UNCHANGED <<now, ticks, upstream, request_sem, sem_waiters, ft_session, faults, idx,
                   checked, transport_calls, league_info_results, info_requests>>

\* lines 261-266: json.dump, close, os.utime, return player_data.
PlayerDump ==
    /\ pc = "player_write"
    /\ files' = [files EXCEPT ![PlayerKey].content = Dump(Validate(calls[PlayerCall].result)),
                              ![PlayerKey].mtime = now]
    /\ player_data' = Validate(calls[PlayerCall].result)
    /\ calls' = [calls EXCEPT ![PlayerCall] = Settled(@)]
    /\ refreshed' = [refreshed EXCEPT ![PlayerKey] = "stored"]
    /\ pc' = "leagues"
    /\ UNCHANGED <<now, ticks, upstream, request_sem, sem_waiters, ft_session, faults, idx,
                   checked, transport_calls, league_info_results, info_requests>>

\* Mutation: after a failed refresh the cache file's payload is returned.
PlayerFail_fallback ==
    /\ pc = "player_await"
    /\ \/ calls[PlayerCall].pc = "failed"
       \/ calls[PlayerCall].pc = "returned" /\ ~Validates(calls[PlayerCall].result)
    /\ player_data' = IF Validates(files[PlayerKey].content)
                      THEN Validate(files[PlayerKey].content)
                      ELSE Empty
    /\ calls' = [calls EXCEPT ![PlayerCall] = Settled(@)]
    /\ refreshed' = [refreshed EXCEPT ![PlayerKey] = "failed"]
    /\ pc' = "leagues"
    /\ UNCHANGED <<idx, checked, transport_calls, league_info_results, info_requests,
                   envVars, request_sem, sem_waiters, ft_session, faults>>

\* lines 267-269: the call raised, or its body does not validate: return {}.
PlayerFail ==
    /\ pc = "player_await"
    /\ \/ calls[PlayerCall].pc = "failed"
       \/ calls[PlayerCall].pc = "returned" /\ ~Validates(calls[PlayerCall].result)
    /\ player_data' = Empty
    /\ calls' = [calls EXCEPT ![PlayerCall] = Settled(@)]
    /\ refreshed' = [refreshed EXCEPT ![PlayerKey] = "failed"]
    /\ pc' = "leagues"
    /\ UNCHANGED <<idx, checked, transport_calls, league_info_results, info_requests,
                   envVars, request_sem, sem_waiters, ft_session, faults>>

(***************************************************************************)
(* request_league_info (lines 272-309).  The first loop's body ends in an  *)
(* unconditional `continue` (line 288), inside the `with`: lines 290-291   *)
(* are never reached and info_requests stays empty.                        *)
(***************************************************************************)
CurrentLeague == league_ids[idx]

\* line 282, on the dict json.load returned: when the file is recent the `or`
\* stops at its left operand; when it is too old, the right operand looks up
\* has_league_ended on a dict, which raises AttributeError.
Line282(f, t) == IF ~IsCacheFileTooOld(f, t) THEN "use" ELSE "AttributeError"

\* line 278: open() is outside the try; a missing or unreadable file raises out
\* of request_league_info and main.
LeagueOpenFails ==
    /\ pc = "leagues"
    /\ idx <= NLeagues
    /\ ~files[CurrentLeague].exists \/ ~files[CurrentLeague].readable
    /\ checked' = Consult(CurrentLeague)
    /\ MainRaises
    /\ UNCHANGED <<idx, transport_calls, refreshed, player_data, league_info_results, info_requests,
                   envVars, request_sem, sem_waiters, ft_session, faults>>

\* Mutation: the payload read is recorded by position in a list that starts
\* at the first id, not under the id whose file was read.
LeagueCacheHit_misaligned ==
    /\ pc = "leagues"
    /\ idx <= NLeagues
    /\ files[CurrentLeague].exists /\ files[CurrentLeague].readable
    /\ Decodes(files[CurrentLeague].content)
    /\ Line282(files[CurrentLeague], now) = "use"
    /\ Validates(files[CurrentLeague].content)
    /\ league_info_results' =
          [league_info_results EXCEPT ![league_ids[1]] = Validate(files[CurrentLeague].content)]
    /\ checked' = Consult(CurrentLeague)
    /\ idx' = idx + 1
    /\ UNCHANGED <<pc, transport_calls, refreshed, player_data, info_requests, envVars, callVars>>

\* lines 280-285 and 288.
LeagueCacheHit ==
    /\ pc = "leagues"
    /\ idx <= NLeagues
    /\ files[CurrentLeague].exists /\ files[CurrentLeague].readable
    /\ Decodes(files[CurrentLeague].content)
    /\ Line282(files[CurrentLeague], now) = "use"
    /\ Validates(files[CurrentLeague].content)
    /\ league_info_results' =
          [league_info_results EXCEPT ![CurrentLeague] = Validate(files[CurrentLeague].content)]
    /\ checked' = Consult(CurrentLeague)
    /\ idx' = idx + 1
    /\ UNCHANGED <<pc, transport_calls, refreshed, player_data, info_requests, envVars, callVars>>

\* lines 280-288: json.load, line 282 or model_validate raises; `pass`, `continue`.
LeagueSkip ==
    /\ pc = "leagues"
    /\ idx <= NLeagues
    /\ files[CurrentLeague].exists /\ files[CurrentLeague].readable
    /\ \/ ~Decodes(files[CurrentLeague].content)
       \/ Line282(files[CurrentLeague], now) # "use"
       \/ ~Validates(files[CurrentLeague].content)
    /\ checked' = Consult(CurrentLeague)
    /\ idx' = idx + 1
    /\ UNCHANGED <<pc, transport_calls, refreshed, player_data, league_info_results, info_requests,
                   envVars, callVars>>

\* line 293: gather's list of results, one per coroutine of info_requests.
responses == [i \in 1..Len(info_requests) |-> calls[info_requests[i]].result]

\* lines 294-307: zip(league_ids, responses) pairs by position and stops at the
\* shorter list; a response that validates is written to the cache file of the
\* paired id and recorded under it.
ZipLength == IF Len(responses) < NLeagues THEN Len(responses) ELSE NLeagues

StoreResponses[i \in 0..NLeagues] ==
    IF i = 0 THEN [f |-> files, r |-> league_info_results]
    ELSE LET prev == StoreResponses[i - 1]
             id == league_ids[i]
             resp == responses[i]
         IN  IF Validates(resp)
             THEN [f |-> [prev.f EXCEPT ![id] = File(now, Dump(Validate(resp)))],
                   r |-> [prev.r EXCEPT ![id] = Validate(resp)]]
             ELSE prev

\* lines 293-309, after the first loop.
LeagueGather ==
    /\ pc = "leagues"
    /\ idx > NLeagues
    /\ \A i \in 1..Len(info_requests) : calls[info_requests[i]].pc \in {"returned", "failed"}
    /\ files' = StoreResponses[ZipLength].f
    /\ league_info_results' = StoreResponses[ZipLength].r
    /\ refreshed' = [k \in FileKeys |->
                        IF \E i \in 1..ZipLength : league_ids[i] = k /\ Validates(responses[i])
                        THEN "stored"
                        ELSE IF \E i \in 1..ZipLength : league_ids[i] = k
                        THEN "failed"
                        ELSE refreshed[k]]
    /\ pc' = "done"
    /\ UNCHANGED <<now, ticks, upstream, callVars, idx, checked, transport_calls, player_data,
                   info_requests>>

\* lines 329-332: KeyboardInterrupt.  It arrives where the run spends its time:
\* while the call waits for the network, or while the cache file is written.
\* asyncio.run cancels the task: a waiting call leaves both `async with`
\* (session closed, slot released); what is on disk stays as it is.
Interrupt ==
    /\ \/ pc = "player_await" /\ calls[PlayerCall].pc = "request"
       \/ pc = "player_write"
    /\ pc' = "interrupted"
    /\ IF calls[PlayerCall].pc = "request"
       THEN /\ calls' = [calls EXCEPT ![PlayerCall].pc = "cancelled",
                                      ![PlayerCall].session = "closed"]
            /\ request_sem' = request_sem + 1
       ELSE UNCHANGED <<calls, request_sem>>
    /\ UNCHANGED <<sem_waiters, ft_session, faults, envVars, idx, checked, transport_calls,
                   refreshed, player_data, league_info_results, info_requests>>

Init ==
    /\ now = StartTime
    /\ ticks = 0
    /\ files \in [FileKeys -> UNION {InitialFiles(k) : k \in FileKeys}]
    /\ \A k \in FileKeys : files[k] \in InitialFiles(k)
    /\ upstream = AllReplies
    /\ calls = [c \in CallIds |-> IdleCall]
    /\ request_sem = request_sem_slots
    /\ sem_waiters = <<>>
    /\ ft_session = 0
    /\ faults = 0
    /\ pc = "player"
    /\ idx = 1
    /\ checked = [k \in FileKeys |-> NotChecked]
    /\ transport_calls = [k \in FileKeys |-> 0]
    /\ refreshed = [k \in FileKeys |-> "none"]
    /\ player_data = NoValue
    /\ league_info_results = [k \in LeagueIds |-> NoValue]
    /\ info_requests = <<>>

\* main awaits one coroutine at a time, so its only call never queues for the
\* semaphore: CallWake has nothing to wake.
Next ==
    \/ Tick
    \/ PlayerCacheHit
    \/ PlayerOpenFails
    \/ PlayerRequest
    \/ CallStart(PlayerCall)
    \/ CallTimeout(PlayerCall)
    \/ CallRaise(PlayerCall)
    \/ CallReturn(PlayerCall)
    \/ PlayerOpenForWrite
    \/ PlayerDump
    \/ PlayerFail
    \/ LeagueOpenFails
    \/ LeagueCacheHit
    \/ LeagueSkip
    \/ LeagueGather
    \/ Interrupt

Spec == Init /\ [][Next]_vars

(***************************************************************************)
(* Vocabulary of the properties.  A resource was consulted when its cache  *)
(* file was looked at; `checked` keeps the file and the time of that look. *)
(***************************************************************************)
Consulted(k) == checked[k].at >= 0

AgeWhenConsulted(k) == checked[k].at - checked[k].file.mtime

AbsentWhenConsulted(k) == Consulted(k) /\ ~checked[k].file.exists

ValidWhenConsulted(k) ==
    /\ Consulted(k)
    /\ checked[k].file.exists
    /\ checked[k].file.readable
    /\ checked[k].file.content.json
    /\ checked[k].file.content.schema

CachedPayload(k) == Validate(checked[k].file.content)

ConcludedWhenConsulted(k) ==
    /\ k \in LeagueIds
    /\ ValidWhenConsulted(k)
    /\ has_league_ended(CachedPayload(k), checked[k].at)

OutcomeOf(k) == IF k = PlayerKey THEN player_data ELSE league_info_results[k]

NoCallFor(k) ==
    /\ transport_calls[k] = 0
    /\ \A c \in CallIds : calls[c].pc # "idle" => calls[c].url # k

InSection == {c \in CallIds : calls[c].pc = "request"}

\* C1: every requested resource whose cache entry is absent or older than
\* 86400 seconds, no concluded-season override applying, gets exactly one
\* _fantrax_api_request call in a run.
C1_OneCallWhenStale ==
    pc = "done" =>
        \A k \in FileKeys :
            (/\ Consulted(k)
             /\ AbsentWhenConsulted(k) \/ AgeWhenConsulted(k) > 86400
             /\ ~ConcludedWhenConsulted(k))
            => transport_calls[k] = 1

\* C2: a resource whose cache file is present, readable, schema-valid and
\* younger than 86400 seconds has the cached payload as its outcome, and no
\* _fantrax_api_request call (hence no semaphore slot) is ever made for it.
C2_FreshHitNoCall ==
    \A k \in FileKeys :
        (ValidWhenConsulted(k) /\ AgeWhenConsulted(k) < 86400)
        => /\ OutcomeOf(k) = CachedPayload(k)
           /\ NoCallFor(k)

C2_Witness ==
    /\ pc = "done"
    /\ \A k \in FileKeys : ValidWhenConsulted(k) /\ AgeWhenConsulted(k) < 86400
    /\ \A k \in FileKeys : OutcomeOf(k) = CachedPayload(k)

\* C3: a league whose cached payload says the season has concluded is served
\* from the cache whatever the age of the file: its entry in the result mapping
\* is the cached payload and no call is made for it.
C3_ConcludedIsFresh ==
    \A k \in LeagueIds :
        ConcludedWhenConsulted(k)
        => /\ league_info_results[k] = CachedPayload(k)
           /\ NoCallFor(k)

\* C4: a call makes at most 3 attempts; when every attempt timed out it has
\* made exactly 3 and fails with retries exhausted; when an attempt succeeds
\* the call returns on that attempt, all earlier ones having timed out.
C4_RetryBound ==
    \A c \in CallIds :
        /\ calls[c].attempts <= 3
        /\ calls[c].pc = "request" => calls[c].attempts = calls[c].retry_count + 1
        /\ (calls[c].pc = "failed" /\ calls[c].last = "timeout")
           => (calls[c].attempts = 3 /\ calls[c].retry_count = 3 /\ calls[c].err = "exhausted")
        /\ calls[c].err = "exhausted" => calls[c].last = "timeout"
        /\ calls[c].pc = "returned"
           => (calls[c].last = "ok" /\ calls[c].attempts = calls[c].retry_count + 1)

C4_Witness ==
    /\ calls[PlayerCall].pc = "failed"
    /\ calls[PlayerCall].err = "exhausted"
    /\ calls[PlayerCall].attempts = 3

\* C5: an attempt that ends in a failure other than a timeout ends the call
\* with that failure: it is the call's last attempt, whatever the number of
\* timeouts before it.
C5_OnlyTimeoutRetried ==
    \A c \in CallIds :
        calls[c].last \in {"connerr", "undecodable", "business"}
        => /\ calls[c].pc \in {"failed", "settled"}
           /\ calls[c].err = "failed"
           /\ calls[c].pc = "failed" => calls[c].attempts = calls[c].retry_count + 1

C5_Witness ==
    /\ calls[PlayerCall].pc = "failed"
    /\ calls[PlayerCall].last = "connerr"
    /\ calls[PlayerCall].retry_count = 2
    /\ calls[PlayerCall].attempts = 3

\* C6: a reply whose body has an `error` member makes the call fail without
\* another attempt and without returning the body; the player directory's
\* outcome is then the failure value and its cache file is left as it was.
C6_BusinessErrorFails ==
    calls[PlayerCall].last = "business"
    => /\ calls[PlayerCall].pc \in {"failed", "settled"}
       /\ calls[PlayerCall].err = "failed"
       /\ calls[PlayerCall].result = Garbage
       /\ calls[PlayerCall].pc = "failed"
          => calls[PlayerCall].attempts = calls[PlayerCall].retry_count + 1
       /\ player_data \in {NoValue, Empty}
       /\ pc \in {"leagues", "done", "raised"} => player_data = Empty
       /\ files[PlayerKey] = checked[PlayerKey].file

C6_Witness ==
    /\ pc = "done"
    /\ calls[PlayerCall].last = "business"
    /\ player_data = Empty
    /\ checked[PlayerKey].file.exists

\* C7: a call never returns the body of a reply whose HTTP status is not 2xx.
C7_Non2xxNeverReturned ==
    \A c \in CallIds :
        calls[c].pc = "returned" => (200 <= calls[c].status /\ calls[c].status <= 299)

\* C8: at most 5 calls are inside the section guarded by _request_sem, however
\* many were started, and the one semaphore accounts for all of them.
C8_ConcurrencyCeiling ==
    /\ Cardinality(InSection) <= 5
    /\ request_sem = 5 - Cardinality(InSection)

C8_Witness ==
    /\ Cardinality(InSection) = 5
    /\ sem_waiters # <<>>
    /\ NCalls > 5

\* C9: request_league_info never raises: a failure for one league id leaves
\* the batch running for the other ids.
C9_BatchNeverRaises ==
    player_data # NoValue => pc # "raised"

\* C10: the mapping request_league_info returns has an entry for every
\* requested league id.
C10_CompleteMapping ==
    pc = "done" => \A k \in LeagueIds : league_info_results[k] # NoValue

StaleWhenConsulted(k) ==
    Consulted(k) /\ checked[k].file.exists /\ AgeWhenConsulted(k) > 86400

\* C11: when the cache file of a resource is stale and its refresh fails (the
\* call raises or the body does not validate), the outcome is the failure value
\* ({} for the player directory); the stale payload is never the result.
C11_NoStaleFallback ==
    \A k \in FileKeys :
        (StaleWhenConsulted(k) /\ refreshed[k] # "stored")
        => /\ OutcomeOf(k) \in {NoValue, Empty}
           /\ (k = PlayerKey /\ refreshed[k] = "failed") => player_data = Empty

C11_Witness ==
    /\ pc = "done"
    /\ StaleWhenConsulted(PlayerKey)
    /\ ValidWhenConsulted(PlayerKey)
    /\ refreshed[PlayerKey] = "failed"
    /\ player_data = Empty

WriteIsOfValidatedResponse(k) ==
    /\ k = PlayerKey
    /\ calls[PlayerCall].url = k
    /\ calls[PlayerCall].pc = "returned"
    /\ Validates(calls[PlayerCall].result)
    /\ files'[k].content \in {Garbage, Dump(Validate(calls[PlayerCall].result))}

FailureLeavesCache ==
    \A k \in FileKeys :
        /\ refreshed[k] = "failed"
           => \A j \in FileKeys : Consulted(j) => files[j] = checked[j].file
        /\ (Consulted(k) /\ files[k] # checked[k].file /\ pc \notin {"player_write", "interrupted"})
           => (Validates(files[k].content) /\ files[k].content.key = k)

\* C12: the cache file of a key changes only in a fetch of that key whose call
\* returned a body that validates; a failed refresh leaves every cache file as
\* it was, and what a completed write leaves in a file is a validated payload.
C12_WritesOnlyOnValidatedSuccess ==
    /\ [][\A k \in FileKeys : files'[k] # files[k] => WriteIsOfValidatedResponse(k)]_vars
    /\ []FailureLeavesCache

C12_Witness ==
    /\ pc = "done"
    /\ refreshed[PlayerKey] = "stored"
    /\ files[PlayerKey] # checked[PlayerKey].file
    /\ Validates(files[PlayerKey].content)

\* C13: reading the cache never raises: a file that is missing, unreadable or
\* malformed is a cache miss, and the resource is then fetched.
C13_CacheReadNeverRaises ==
    \A k \in FileKeys :
        (Consulted(k) /\ ~ValidWhenConsulted(k))
        => /\ pc # "raised"
           /\ pc = "done" => transport_calls[k] = 1

Ended(c) == calls[c].pc \in {"returned", "failed"}

\* C14: a call gives its slot back when it ends, however it ends; with no call
\* in the guarded section all 5 slots are free; a call that waits for a slot
\* gets one.
C14_SlotReleasedOnEveryOutcome ==
    /\ [][\A c \in CallIds :
             (calls[c].pc = "request" /\ Ended(c)') => request_sem' = request_sem + 1]_vars
    /\ [](InSection = {} => request_sem = 5)
    /\ \A c \in CallIds : (calls[c].pc = "wait") ~> (calls[c].pc = "request")

C14_Witness ==
    /\ \A c \in CallIds : Ended(c)
    /\ request_sem = 5
    /\ \E c \in CallIds : calls[c].pc = "returned"
    /\ \E c \in CallIds : calls[c].pc = "failed" /\ calls[c].last = "business"
    /\ \E c \in CallIds : calls[c].pc = "failed" /\ calls[c].last = "connerr"

\* C15: a successful refresh of a key stamps its cache file with the time of
\* the write, also when the payload written equals the one the file held; the
\* modification time of a cache file never decreases.
C15_FreshnessTimestamp ==
    /\ [][\A k \in FileKeys : files'[k].mtime >= files[k].mtime]_vars
    /\ [][(pc = "player_write" /\ pc' = "leagues") => files'[PlayerKey].mtime = now]_vars
    /\ [](refreshed[PlayerKey] = "stored" => files[PlayerKey].mtime = now)

C15_Witness ==
    /\ pc = "done"
    /\ refreshed[PlayerKey] = "stored"
    /\ ValidWhenConsulted(PlayerKey)
    /\ files[PlayerKey].content = checked[PlayerKey].file.content
    /\ files[PlayerKey].mtime > checked[PlayerKey].file.mtime

\* C16: a cache file that the run has touched holds a complete payload in every
\* state, under way or left behind by an interrupt: never a truncated one.
C16_AtomicReplacement ==
    \A k \in FileKeys :
        (Consulted(k) /\ files[k] # checked[k].file) => Validates(files[k].content)

\* C17: when a transport call has ended, by a return, an exception or a
\* cancellation, its session is closed; no session is open once the run is over.
C17_SessionClosed ==
    /\ \A c \in CallIds :
          calls[c].pc \in {"returned", "failed", "settled", "cancelled"}
             => calls[c].session = "closed"
    /\ pc \in {"done", "raised", "interrupted"}
          => \A c \in CallIds : calls[c].session # "open"

C17_Witness ==
    /\ pc = "done"
    /\ calls[PlayerCall].pc = "settled"
    /\ calls[PlayerCall].err = "failed"
    /\ calls[PlayerCall].last = "business"
    /\ calls[PlayerCall].session = "closed"

\* C18: once request_league_info has begun, the run can take a step until the
\* batch has returned, and it returns with no transport call under way.
C18_BatchReturns ==
    /\ player_data # NoValue => (pc = "done" \/ ENABLED Next)
    /\ pc = "done" => \A c \in CallIds : calls[c].pc \notin {"start", "wait", "request"}

\* C19: a call takes its slot once, with its first attempt; a retry is made
\* with the slot held; a slot comes back only when a call ends; at most five
\* calls are between their first attempt and their end.
AttemptedNotEnded == {c \in CallIds : calls[c].attempts >= 1 /\ ~Ended(c)}

C19_SlotHeldAcrossRetries ==
    /\ [][\A c \in CallIds :
            /\ (calls[c].attempts = 0 /\ calls'[c].attempts = 1)
                  => request_sem' = request_sem - 1
            /\ (calls[c].attempts >= 1 /\ calls'[c].retry_count = calls[c].retry_count + 1
                   /\ ~Ended(c)')
                  => /\ request_sem' = request_sem
                     /\ calls'[c].pc = "request"
                     /\ calls'[c].attempts = calls[c].attempts + 1]_vars
    /\ [][request_sem' > request_sem
            => \E c \in CallIds : calls[c].pc = "request" /\ Ended(c)']_vars
    /\ [](Cardinality(AttemptedNotEnded) <= 5)

C19_Witness ==
    /\ Cardinality(AttemptedNotEnded) = 5
    /\ sem_waiters # <<>>
    /\ \E c \in AttemptedNotEnded : calls[c].retry_count = 2 /\ calls[c].attempts = 3

\* C20: what is recorded or written under a key is the payload of that key's
\* own cache file or of a response to that key's own request.
ResponsesFor(k) == {Body(r, k) : r \in upstream}

OwnPayload(k, m) ==
    \/ ValidWhenConsulted(k) /\ m = CachedPayload(k)
    \/ /\ transport_calls[k] >= 1
       /\ \E b \in ResponsesFor(k) : Validates(b) /\ m = Validate(b)

====
